---- MODULE Spec2Model ----
(***************************************************************************)
(* The patient and appointment services (Flask + pyodbc over SQL Server).   *)
(* A behaviour follows the pods of one of the two services, the requests    *)
(* sent to it and the database they share.  Each handler is cut at its      *)
(* database round trips: connect, execute, commit and SELECT @@IDENTITY.    *)
(***************************************************************************)
EXTENDS Integers, Sequences, FiniteSets, TLC

\* ------------------------------------------------------------------ bounds
\* Cap on the identity values a table hands out (so on its rows).
MaxRows == 2

\* --------------------------------------------------------- program constants
\* replicaCount of the patient-api and appointment-api charts.
replicaCount == 2
\* IDENTITY(1,1): seed and increment of the id column.
IdentitySeed == 1
IdentityIncrement == 1

Services == {"patient", "appointment"}
\* The clients whose requests may be in flight together.
Slots == {"c1", "c2"}
Replicas == 1..replicaCount

\* An absent JSON field / Python None / SQL NULL, and a present value.
None == <<>>
Some(v) == <<v>>

\* ------------------------------------------------------------------ state
VARIABLES
    svc,        \* the service whose pods the behaviour follows
    dbUp,       \* whether the SQL Server is reachable
    sysobjects, \* the user tables of database hospital
    rows,       \* the committed rows of each table, in insertion order
    identity,   \* the last identity value each table generated
    pstate,     \* each replica's process: where it is in the module-level code
    req         \* each client's request and the handler that serves it

vars == <<svc, dbUp, sysobjects, rows, identity, pstate, req>>

\* ------------------------------------------------------------------ text
\* Text that the services convert is a sequence of one-character strings.
Digits == {"0", "1", "2", "3", "4", "5", "6", "7", "8", "9"}

DigitVal(c) ==
    CASE c = "0" -> 0 [] c = "1" -> 1 [] c = "2" -> 2 [] c = "3" -> 3
      [] c = "4" -> 4 [] c = "5" -> 5 [] c = "6" -> 6 [] c = "7" -> 7
      [] c = "8" -> 8 [] c = "9" -> 9

DigitChar(n) ==
    CASE n = 0 -> "0" [] n = 1 -> "1" [] n = 2 -> "2" [] n = 3 -> "3"
      [] n = 4 -> "4" [] n = 5 -> "5" [] n = 6 -> "6" [] n = 7 -> "7"
      [] n = 8 -> "8" [] n = 9 -> "9"

AllDigits(txt, from, to) == \A i \in from..to : txt[i] \in Digits

Num2(txt, i) == 10 * DigitVal(txt[i]) + DigitVal(txt[i + 1])
Num4(txt, i) == 100 * Num2(txt, i) + Num2(txt, i + 2)

Pad2(n) == <<DigitChar(n \div 10), DigitChar(n % 10)>>
Pad4(n) == Pad2(n \div 100) \o Pad2(n % 100)

\* VARCHAR(n): the value cut to its first n characters.
Left(txt, n) == IF Len(txt) <= n THEN txt ELSE SubSeq(txt, 1, n)

ValidDate(y, m, d) == y >= 1 /\ m \in 1..12 /\ d \in 1..31
ValidTime(h, mi, s) == h \in 0..23 /\ mi \in 0..59 /\ s \in 0..59

\* The implicit conversion of a character parameter to the DATE column:
\* 'YYYY-MM-DD' and the unseparated 'YYYYMMDD'.  None: conversion fails.
ParseDate(txt) ==
    IF /\ Len(txt) = 10 /\ txt[5] = "-" /\ txt[8] = "-"
       /\ AllDigits(txt, 1, 4) /\ AllDigits(txt, 6, 7) /\ AllDigits(txt, 9, 10)
       /\ ValidDate(Num4(txt, 1), Num2(txt, 6), Num2(txt, 9))
    THEN Some([y |-> Num4(txt, 1), m |-> Num2(txt, 6), d |-> Num2(txt, 9)])
    ELSE IF /\ Len(txt) = 8 /\ AllDigits(txt, 1, 8)
            /\ ValidDate(Num4(txt, 1), Num2(txt, 5), Num2(txt, 7))
    THEN Some([y |-> Num4(txt, 1), m |-> Num2(txt, 5), d |-> Num2(txt, 7)])
    ELSE None

\* The implicit conversion of a character parameter to the TIME column:
\* 'hh:mi' and 'hh:mi:ss'.  None: conversion fails.
ParseTime(txt) ==
    IF /\ Len(txt) = 5 /\ txt[3] = ":"
       /\ AllDigits(txt, 1, 2) /\ AllDigits(txt, 4, 5)
       /\ ValidTime(Num2(txt, 1), Num2(txt, 4), 0)
    THEN Some([h |-> Num2(txt, 1), mi |-> Num2(txt, 4), s |-> 0])
    ELSE IF /\ Len(txt) = 8 /\ txt[3] = ":" /\ txt[6] = ":"
            /\ AllDigits(txt, 1, 2) /\ AllDigits(txt, 4, 5) /\ AllDigits(txt, 7, 8)
            /\ ValidTime(Num2(txt, 1), Num2(txt, 4), Num2(txt, 7))
    THEN Some([h |-> Num2(txt, 1), mi |-> Num2(txt, 4), s |-> Num2(txt, 7)])
    ELSE None

\* CONVERT(..., date, 120): yyyy-mm-dd.
Style120(d) == Pad4(d.y) \o <<"-">> \o Pad2(d.m) \o <<"-">> \o Pad2(d.d)
\* CONVERT(..., time, 108): hh:mi:ss.
Style108(t) == Pad2(t.h) \o <<":">> \o Pad2(t.mi) \o <<":">> \o Pad2(t.s)

\* CONVERT(VARCHAR(10), date, 120) AS date; NULL stays NULL.
ConvertDate(col) == IF col = None THEN None ELSE Some(Left(Style120(col[1]), 10))
\* (mutant) The time read into VARCHAR(8).
ConvertTimeWide(col) == IF col = None THEN None ELSE Some(Left(Style108(col[1]), 8))

\* CONVERT(VARCHAR(5), time, 108) AS time; NULL stays NULL.
ConvertTime(col) == IF col = None THEN None ELSE Some(Left(Style108(col[1]), 5))

\* ------------------------------------------------------------ request data
DateIso == <<"2", "0", "2", "4", "-", "0", "3", "-", "1", "5">>
DateBasic == <<"2", "0", "2", "4", "0", "3", "1", "5">>
DateBad == <<"2", "0", "2", "4", "-", "1", "3", "-", "4", "5">>
TimeShort == <<"1", "4", ":", "3", "0">>
TimeSeconds == <<"1", "4", ":", "3", "0", ":", "0", "0">>

\* JSON bodies of POST /patients; data.get gives None for a missing field.
PatientBodies ==
    { [name |-> Some("Jane Doe"), age |-> Some(34)],
      [name |-> None, age |-> Some(34)] }

\* JSON bodies of POST /appointments.
AppointmentBodies ==
    { [patient_id |-> Some(1), doctor |-> Some("Dr. Smith"),
       date |-> Some(DateIso), time |-> Some(TimeShort)],
      [patient_id |-> Some(7), doctor |-> Some("Dr. Smith"),
       date |-> Some(DateBasic), time |-> Some(TimeSeconds)],
      [patient_id |-> Some(1), doctor |-> Some("Dr. Smith"),
       date |-> Some(DateBad), time |-> Some(TimeShort)] }

Bodies(s) == IF s = "patient" THEN PatientBodies ELSE AppointmentBodies

\* Contents the patients table may have when the appointment service is deployed.
PriorPatients == { <<>>, <<[id |-> 1, name |-> Some("Jane Doe"), age |-> Some(34)]>> }

\* --------------------------------------------------------------- the services
Table(s) == IF s = "patient" THEN "patients" ELSE "appointments"
TableNames == {"patients", "appointments"}
Path(s) == IF s = "patient" THEN "/patients" ELSE "/appointments"

\* The @app.route table of each service.
Routes(s) ==
    IF s = "patient"
    THEN { <<"GET", "/patients">>, <<"POST", "/patients">> }
    ELSE { <<"GET", "/appointments">>, <<"GET", "/health">>, <<"POST", "/appointments">> }

\* The value a column takes from a character parameter: NULL for None.
ToDate(v) == IF v = None THEN None ELSE ParseDate(v[1])
ToTime(v) == IF v = None THEN None ELSE ParseTime(v[1])

\* (mutant) patient_id declared with a foreign key to patients(id).
ConvertibleWithForeignKey(s, body) ==
    /\ s = "appointment" =>
          /\ body.date # None => ToDate(body.date) # None
          /\ body.time # None => ToTime(body.time) # None
          /\ body.patient_id # None => body.patient_id[1] \in {rows["patients"][i].id : i \in DOMAIN rows["patients"]}

\* Whether the INSERT's parameters convert to the column types.
Convertible(s, body) ==
    \/ s = "patient"
    \/ /\ s = "appointment"
       /\ (body.date # None => ToDate(body.date) # None)
       /\ (body.time # None => ToTime(body.time) # None)

\* (mutant) The name parameter is bound as NULL.
InsertedRowNameless(s, id, body) ==
    IF s = "patient"
    THEN [id |-> id, name |-> None, age |-> body.age]
    ELSE [id |-> id, patient_id |-> body.patient_id, doctor |-> body.doctor,
          date |-> ToDate(body.date), time |-> ToTime(body.time)]

\* INSERT INTO <table> (...) VALUES (?, ...): the row, with the identity value id.
\* The columns are nullable: a NULL parameter is stored as NULL.
InsertedRow(s, id, body) ==
    IF s = "patient"
    THEN [id |-> id, name |-> body.name, age |-> body.age]
    ELSE [id |-> id, patient_id |-> body.patient_id, doctor |-> body.doctor,
          date |-> ToDate(body.date), time |-> ToTime(body.time)]

\* One element of the list handlers' result.
SelectedItem(s, row) ==
    IF s = "patient"
    THEN [id |-> row.id, name |-> row.name, age |-> row.age]
    ELSE [id |-> row.id, patient_id |-> row.patient_id, doctor |-> row.doctor,
          date |-> ConvertDate(row.date), time |-> ConvertTime(row.time)]

\* The JSON the create handlers return: the generated id and the request's fields.
CreateResponse(s, id, body) ==
    IF s = "patient"
    THEN [id |-> id, name |-> body.name, age |-> body.age]
    ELSE [id |-> id, patient_id |-> body.patient_id, doctor |-> body.doctor,
          date |-> body.date, time |-> body.time]

HealthResponse == [status |-> "healthy"]

\* ------------------------------------------------------------ initial state
IdleRequest ==
    [pc |-> "idle", method |-> "", path |-> "", body |-> None,
     conn |-> "none", ident |-> None, status |-> 0, resp |-> <<>>]

\* Creates that have not yet drawn their identity value.
Upcoming ==
    Cardinality({r \in Slots : req[r].method = "POST" /\ req[r].pc \in {"sent", "exec"}})

Init ==
    /\ svc \in Services
    /\ dbUp \in BOOLEAN
    /\ \E prior \in PriorPatients :
         /\ sysobjects = IF svc = "appointment" THEN {"patients"} ELSE {}
         /\ rows = [t \in TableNames |->
                      IF svc = "appointment" /\ t = "patients" THEN prior ELSE <<>>]
         /\ identity = [t \in TableNames |->
                      IF svc = "appointment" /\ t = "patients"
                      THEN IdentitySeed - IdentityIncrement + Len(prior) * IdentityIncrement
                      ELSE IdentitySeed - IdentityIncrement]
    /\ pstate = [p \in Replicas |-> "stopped"]
    /\ req = [r \in Slots |-> IdleRequest]

\* ------------------------------------------------------------ environment
DbDown ==
    /\ dbUp
    /\ dbUp' = FALSE
    /\ UNCHANGED <<svc, sysobjects, rows, identity, pstate, req>>

DbUp ==
    /\ ~dbUp
    /\ dbUp' = TRUE
    /\ UNCHANGED <<svc, sysobjects, rows, identity, pstate, req>>

\* The kubelet restarts a container that exited.
ContainerRestart(p) ==
    /\ pstate[p] = "crashed"
    /\ pstate' = [pstate EXCEPT ![p] = "stopped"]
    /\ UNCHANGED <<svc, dbUp, sysobjects, rows, identity, req>>

\* The cluster replaces a running pod (here: while no request is outstanding).
PodReplace(p) ==
    /\ pstate[p] = "running"
    /\ \A r \in Slots : req[r].pc \in {"idle", "sent"}
    /\ pstate' = [pstate EXCEPT ![p] = "stopped"]
    /\ UNCHANGED <<svc, dbUp, sysobjects, rows, identity, req>>

\* ---------------------------------------------------------------- startup
\* (mutant) The batch without its IF NOT EXISTS.
Unguarded(t) == TRUE

\* IF NOT EXISTS (SELECT * FROM sysobjects WHERE name=... AND xtype='U')
NotExists(t) == t \notin sysobjects

\* with get_db_connection() as conn, and the batch up to its IF.  An exception
\* in the module-level code ends the process.  When the table exists the batch
\* is over, conn.commit() follows and the module goes on to app.run.
StartCheck(p) ==
    /\ pstate[p] = "stopped"
    /\ pstate' = [pstate EXCEPT ![p] =
                    IF ~dbUp THEN "crashed"
                    ELSE IF NotExists(Table(svc)) THEN "absent" ELSE "running"]
    /\ UNCHANGED <<svc, dbUp, sysobjects, rows, identity, req>>

\* (mutant) The existence check repeated under the CREATE's lock: a replica
\* that finds the table made meanwhile goes on to serve.
GuardCreateRechecked(p) ==
    /\ pstate[p] = "absent"
    /\ dbUp => \A q \in Replicas : pstate[q] # "created"
    /\ pstate' = [pstate EXCEPT ![p] =
                    IF ~dbUp THEN "crashed"
                    ELSE IF Table(svc) \in sysobjects THEN "running" ELSE "created"]
    /\ UNCHANGED <<svc, dbUp, sysobjects, rows, identity, req>>

\* CREATE TABLE, in the connection's open transaction.  It waits while another
\* session holds an uncommitted CREATE of the table, and fails when the table
\* exists.
GuardCreate(p) ==
    /\ pstate[p] = "absent"
    /\ dbUp => \A q \in Replicas : pstate[q] # "created"
    /\ pstate' = [pstate EXCEPT ![p] =
                    IF ~dbUp \/ Table(svc) \in sysobjects THEN "crashed" ELSE "created"]
    /\ UNCHANGED <<svc, dbUp, sysobjects, rows, identity, req>>

\* conn.commit() of the CREATE TABLE; then the module goes on to app.run.
StartCommit(p) ==
    /\ pstate[p] = "created"
    /\ IF ~dbUp
       THEN /\ pstate' = [pstate EXCEPT ![p] = "crashed"]
            /\ UNCHANGED <<sysobjects, rows, identity>>
       ELSE /\ pstate' = [pstate EXCEPT ![p] = "running"]
            /\ sysobjects' = sysobjects \cup {Table(svc)}
            /\ rows' = [rows EXCEPT ![Table(svc)] = <<>>]
            /\ identity' = [identity EXCEPT ![Table(svc)] = IdentitySeed - IdentityIncrement]
    /\ UNCHANGED <<svc, dbUp, req>>

\* --------------------------------------------------------------- requests
\* A client sends a request; creates stop once the table's identity cap is due.
Send(r) ==
    /\ req[r].pc = "idle"
    /\ \E m \in {"GET", "POST"}, path \in {Path(svc), "/health"} :
         \E body \in (IF m = "POST" THEN Bodies(svc) ELSE {None}) :
            /\ m = "POST" => /\ path = Path(svc)
                             /\ identity[Table(svc)] + Upcoming * IdentityIncrement
                                  < IdentitySeed + (MaxRows - 1) * IdentityIncrement
            /\ req' = [req EXCEPT ![r] =
                         [IdleRequest EXCEPT !.pc = "sent", !.method = m,
                                             !.path = path, !.body = body]]
    /\ UNCHANGED <<svc, dbUp, sysobjects, rows, identity, pstate>>

\* health(): return jsonify({'status': 'healthy'}), 200
health(r) == [req[r] EXCEPT !.pc = "done", !.status = 200, !.resp = <<HealthResponse>>]

\* Flask's answer to a request no route matches.
NotFound(r) == [req[r] EXCEPT !.pc = "done", !.status = 404]

\* An exception leaves the handler: inside the with block Connection.__exit__
\* rolls the transaction back and does not close the connection; the exception
\* reaches Flask, which answers 500.  The traceback keeps the handler's frame,
\* and with it the connection, until the garbage collector frees them.
Raised(r) == [req[r] EXCEPT !.pc = "done", !.status = 500, !.resp = <<>>, !.ident = None]

\* (mutant) A connect whose failure is swallowed: the handler goes on.
ConnectUnchecked(r) == [req[r] EXCEPT !.pc = "exec", !.conn = "open"]

\* get_db_connection(): pyodbc.connect raises when the server is unreachable.
get_db_connection(r) ==
    IF dbUp THEN [req[r] EXCEPT !.pc = "exec", !.conn = "open"] ELSE Raised(r)

\* A running replica takes the request and Flask routes it: to no view (404),
\* to health, which answers at once, or to a handler, which starts by
\* connecting.
Dispatch(r) ==
    /\ req[r].pc = "sent"
    /\ \E p \in Replicas : pstate[p] = "running"
    /\ req' = [req EXCEPT ![r] =
                 IF <<req[r].method, req[r].path>> \notin Routes(svc) THEN NotFound(r)
                 ELSE IF req[r].path = "/health" THEN health(r)
                 ELSE get_db_connection(r)]
    /\ UNCHANGED <<svc, dbUp, sysobjects, rows, identity, pstate>>

\* What becomes of the connection when the handler returns normally: its last
\* reference goes with the frame, and pyodbc closes it on deallocation.
ConnAtReturn == "closed"

\* (mutant) A handler that answers 404 when it has nothing to return.
ReturnedUnlessEmpty(r, resp) ==
    IF resp = <<>>
    THEN [req[r] EXCEPT !.pc = "done", !.status = 404, !.conn = "closed"]
    ELSE [req[r] EXCEPT !.pc = "done", !.status = 200, !.resp = resp, !.conn = "closed"]

\* The with block ends normally (Connection.__exit__ commits) and the handler
\* returns jsonify(...).
Returned(r, resp) ==
    [req[r] EXCEPT !.pc = "done", !.status = 200, !.resp = resp, !.conn = ConnAtReturn]

\* SELECT ... FROM <table>; fetchall(); the list comprehension.
SelectAll(s) == [i \in 1..Len(rows[Table(s)]) |-> SelectedItem(s, rows[Table(s)][i])]

\* get_patients / get_appointments, after the connection.
ExecSelect(r) ==
    /\ req[r].pc = "exec"
    /\ req[r].method = "GET"
    /\ req' = [req EXCEPT ![r] = IF dbUp THEN Returned(r, SelectAll(svc)) ELSE Raised(r)]
    /\ UNCHANGED <<svc, dbUp, sysobjects, rows, identity, pstate>>

\* The identity value an INSERT draws; it is drawn outside the transaction.
NextIdentity(t) == identity[t] + IdentityIncrement

\* cursor.execute("INSERT INTO ..."): the row stays uncommitted in the session.
ExecInsert(r) ==
    /\ req[r].pc = "exec"
    /\ req[r].method = "POST"
    /\ IF dbUp /\ Convertible(svc, req[r].body)
       THEN /\ identity' = [identity EXCEPT ![Table(svc)] = NextIdentity(Table(svc))]
            /\ req' = [req EXCEPT ![r] =
                         [req[r] EXCEPT !.pc = "commit",
                                        !.ident = Some(NextIdentity(Table(svc)))]]
       ELSE /\ req' = [req EXCEPT ![r] = Raised(r)]
            /\ UNCHANGED identity
    /\ UNCHANGED <<svc, dbUp, sysobjects, rows, pstate>>

\* (mutant) The new row put in place of the table's rows.
Replaced(tbl, row) == <<row>>

\* The table after the committed INSERT.
Inserted(tbl, row) == Append(tbl, row)

\* conn.commit() of the create handlers.
Commit(r) ==
    /\ req[r].pc = "commit"
    /\ IF dbUp
       THEN /\ rows' = [rows EXCEPT ![Table(svc)] =
                          Inserted(rows[Table(svc)],
                                   InsertedRow(svc, req[r].ident[1], req[r].body))]
            /\ req' = [req EXCEPT ![r] = [req[r] EXCEPT !.pc = "ident"]]
       ELSE /\ req' = [req EXCEPT ![r] = Raised(r)]
            /\ UNCHANGED rows
    /\ UNCHANGED <<svc, dbUp, sysobjects, identity, pstate>>

\* (mutant) IDENT_CURRENT: the table's last identity value, of any session.
IdentCurrent(r) == identity[Table(svc)]

\* SELECT @@IDENTITY: the last identity value generated in this session.
AtAtIdentity(r) == req[r].ident[1]

\* cursor.execute("SELECT @@IDENTITY"); fetchone()[0]; the end of the with
\* block; return jsonify({...}).
ReadIdentity(r) ==
    /\ req[r].pc = "ident"
    /\ req' = [req EXCEPT ![r] =
                 IF dbUp
                 THEN Returned(r, <<CreateResponse(svc, AtAtIdentity(r), req[r].body)>>)
                 ELSE Raised(r)]
    /\ UNCHANGED <<svc, dbUp, sysobjects, rows, identity, pstate>>

\* The garbage collector frees the traceback of a failed request, and with it
\* the connection; when it runs is not fixed.  (A connection is followed until
\* its client has the response.)
Collect(r) ==
    /\ req[r].pc = "done"
    /\ req[r].conn = "open"
    /\ req' = [req EXCEPT ![r].conn = "closed"]
    /\ UNCHANGED <<svc, dbUp, sysobjects, rows, identity, pstate>>

Range(f) == {f[i] : i \in DOMAIN f}

\* The client receives the response.
Receive(r) ==
    /\ req[r].pc = "done"
    /\ req' = [req EXCEPT ![r] = IdleRequest]
    /\ UNCHANGED <<svc, dbUp, sysobjects, rows, identity, pstate>>

\* The steps of the pods, the clients and the garbage collector.
Step ==
    \/ \E p \in Replicas : ContainerRestart(p)
    \/ \E p \in Replicas : PodReplace(p)
    \/ \E p \in Replicas : StartCheck(p)
    \/ \E p \in Replicas : GuardCreate(p)
    \/ \E p \in Replicas : StartCommit(p)
    \/ \E r \in Slots : Send(r)
    \/ \E r \in Slots : Dispatch(r)
    \/ \E r \in Slots : ExecSelect(r)
    \/ \E r \in Slots : ExecInsert(r)
    \/ \E r \in Slots : Commit(r)
    \/ \E r \in Slots : ReadIdentity(r)
    \/ \E r \in Slots : Collect(r)
    \/ \E r \in Slots : Receive(r)

Next == DbDown \/ DbUp \/ Step

Spec == Init /\ [][Next]_vars

\* Starts in sequence: at most one replica is inside the module-level code.
Sequential == Cardinality({p \in Replicas : pstate[p] \in {"absent", "created"}}) <= 1

NextSeq == Next /\ Sequential'

SeqSpec == Init /\ [][NextSeq]_vars

\* The processes run on: a start, a restart of an exited container and a
\* handler's next step happen when they can.  The database, the clients, pod
\* replacement and the garbage collector owe nothing.
Fairness ==
    /\ \A p \in Replicas : WF_vars(StartCheck(p))
    /\ \A p \in Replicas : WF_vars(GuardCreate(p))
    /\ \A p \in Replicas : WF_vars(StartCommit(p))
    /\ \A p \in Replicas : WF_vars(ContainerRestart(p))
    /\ \A r \in Slots : SF_vars(Dispatch(r))
    /\ \A r \in Slots : WF_vars(ExecSelect(r))
    /\ \A r \in Slots : WF_vars(ExecInsert(r))
    /\ \A r \in Slots : WF_vars(Commit(r))
    /\ \A r \in Slots : WF_vars(ReadIdentity(r))

\* An outage: the database, once unreachable, stays unreachable.
NextOutage == DbDown \/ Step

OutageSpec == Init /\ [][NextOutage]_vars /\ Fairness

\* ------------------------------------------------------------------ claims
Ids(tbl) == {tbl[i].id : i \in DOMAIN tbl}

IsList(q) == q.method = "GET" /\ q.path = Path(svc)
IsCreate(q) == q.method = "POST" /\ q.path = Path(svc)
IsHealth(q) == q.method = "GET" /\ q.path = "/health"
Answered(q, code) == q.pc = "done" /\ q.status = code

\* The step in which a create's commit stores its row.
Commits(r) == req[r].pc = "commit" /\ req'[r].pc = "ident"
\* The step in which a list reads the table and answers.
Lists(r) == req[r].pc = "exec" /\ IsList(req[r]) /\ Answered(req'[r], 200)

\* C1, first half: the commit of a createPatient leaves the prior records and
\* exactly one new one, which carries the request's name and age under an id
\* that no prior record has.
C1_CommitAddsOne ==
    \A r \in Slots : Commits(r) =>
        \E row \in Range(rows'["patients"]) :
            /\ rows'["patients"] = Append(rows["patients"], row)
            /\ row.id \notin Ids(rows["patients"])
            /\ row.name = req[r].body.name
            /\ row.age = req[r].body.age

\* C1, second half: a listPatients that follows a successful createPatient
\* returns the table, in which exactly one record has the id createPatient
\* returned, and that record has the request's name and age.
C1_ListShowsCreated ==
    \A l \in Slots : Lists(l) =>
        /\ Len(req'[l].resp) = Len(rows["patients"])
        /\ \A i \in DOMAIN rows["patients"] :
              /\ req'[l].resp[i].id = rows["patients"][i].id
              /\ req'[l].resp[i].name = rows["patients"][i].name
              /\ req'[l].resp[i].age = rows["patients"][i].age
        /\ \A c \in Slots : IsCreate(req[c]) /\ Answered(req[c], 200) =>
              /\ Cardinality({i \in DOMAIN req'[l].resp :
                                req'[l].resp[i].id = req[c].resp[1].id}) = 1
              /\ \A i \in DOMAIN req'[l].resp :
                    req'[l].resp[i].id = req[c].resp[1].id =>
                       /\ req'[l].resp[i].name = req[c].body.name
                       /\ req'[l].resp[i].age = req[c].body.age

\* C1: for every (name, age) and every prior table content, a successful
\* createPatient followed by listPatients returns the prior records plus
\* exactly one new record, with the input's name and age, whose id is the one
\* createPatient returned and differs from every id that existed before.
C1_CreateThenList ==
    [][svc = "patient" => C1_CommitAddsOne /\ C1_ListShowsCreated]_vars

\* A listPatients answered with two records, the later of them the record of
\* a createPatient whose answer is still held.
C1_Witness ==
    /\ svc = "patient"
    /\ \E c, l \in Slots :
          /\ IsCreate(req[c]) /\ Answered(req[c], 200)
          /\ IsList(req[l]) /\ Answered(req[l], 200)
          /\ Len(req[l].resp) = 2
          /\ req[l].resp[2].id = req[c].resp[1].id

\* A create whose row is committed: it is about to read its identity, or has
\* answered.
Stored(q) == IsCreate(q) /\ (q.pc = "ident" \/ Answered(q, 200))

\* C2: under every interleaving of the steps of two concurrent createPatient
\* requests, both store a record, the two records have distinct ids, and each
\* request returns the id of its own record.
C2_ConcurrentCreates ==
    svc = "patient" =>
      \A a \in Slots :
         /\ Stored(req[a]) =>
              /\ Cardinality({i \in DOMAIN rows["patients"] :
                                rows["patients"][i].id = req[a].ident[1]}) = 1
              /\ \A i \in DOMAIN rows["patients"] :
                    rows["patients"][i].id = req[a].ident[1] =>
                       /\ rows["patients"][i].name = req[a].body.name
                       /\ rows["patients"][i].age = req[a].body.age
              /\ \A b \in Slots \ {a} : Stored(req[b]) => req[a].ident # req[b].ident
         /\ IsCreate(req[a]) /\ Answered(req[a], 200) =>
              req[a].resp[1].id = req[a].ident[1]

\* Two creates overlap: b inserted first and has not yet read its identity,
\* a inserted after it and has already answered.
C2_Witness ==
    /\ svc = "patient"
    /\ \E a, b \in Slots :
          /\ IsCreate(req[a]) /\ Answered(req[a], 200)
          /\ IsCreate(req[b]) /\ req[b].pc = "ident"
          /\ req[b].ident[1] < req[a].ident[1]
          /\ req[a].body # req[b].body

\* C3: both services answer GET /health with status 200 and the body
\* {status: "healthy"}, in every state of a running process, without opening a
\* database connection.
C3_HealthOnBothServices ==
    \A r \in Slots : IsHealth(req[r]) /\ req[r].pc = "done" =>
        /\ req[r].status = 200
        /\ req[r].resp = <<HealthResponse>>
        /\ req[r].conn = "none"

\* C4: health() answers with success even when the database is unreachable,
\* also when it has been unreachable since the service process was started: a
\* GET /health sent to the appointment service is eventually answered 200.
C4_HealthEventuallyAnswered ==
    \A r \in Slots :
        (svc = "appointment" /\ req[r].pc = "sent" /\ IsHealth(req[r]))
            ~> Answered(req[r], 200)

\* YYYY-MM-DD: ten characters, digits around two hyphens.
FixedDate(txt) ==
    /\ Len(txt) = 10
    /\ \A i \in 1..10 : IF i \in {5, 8} THEN txt[i] = "-" ELSE txt[i] \in Digits

\* HH:MM: five characters, digits around a colon.
FixedTime(txt) ==
    /\ Len(txt) = 5
    /\ \A i \in 1..5 : IF i = 3 THEN txt[i] = ":" ELSE txt[i] \in Digits

FixedForms(item) ==
    /\ item.date # None /\ FixedDate(item.date[1])
    /\ item.time # None /\ FixedTime(item.time[1])

\* C5 as claimed: for every appointment createAppointment accepts, the date
\* and time have the forms YYYY-MM-DD and HH:MM in the createAppointment
\* response and in every listAppointments result.
C5_FixedFormsEverywhere ==
    svc = "appointment" =>
      \A r \in Slots : Answered(req[r], 200) /\ (IsCreate(req[r]) \/ IsList(req[r])) =>
          \A i \in DOMAIN req[r].resp : FixedForms(req[r].resp[i])

\* C5 as amended: every listAppointments result gives the date as YYYY-MM-DD
\* and the time as HH:MM, whatever text the request gave; the createAppointment
\* response repeats the request's date and time as they were given.
C5_FixedFormsWhenListed ==
    svc = "appointment" =>
      \A r \in Slots : Answered(req[r], 200) =>
          /\ IsList(req[r]) => \A i \in DOMAIN req[r].resp : FixedForms(req[r].resp[i])
          /\ IsCreate(req[r]) => /\ req[r].resp[1].date = req[r].body.date
                                 /\ req[r].resp[1].time = req[r].body.time

\* A create given 20240315 and 14:30:00 has answered, and a list shows its
\* record.
C5_Witness ==
    /\ svc = "appointment"
    /\ \E c, l \in Slots :
          /\ IsCreate(req[c]) /\ Answered(req[c], 200)
          /\ req[c].body.date = Some(DateBasic) /\ req[c].body.time = Some(TimeSeconds)
          /\ IsList(req[l]) /\ Answered(req[l], 200)
          /\ \E i \in DOMAIN req[l].resp : req[l].resp[i].id = req[c].resp[1].id

\* C6: in every handler the connection acquired at its start is closed before
\* the response is returned, on every exit path; no connection stays open
\* after its request has completed.
C6_ConnectionReleased ==
    \A r \in Slots : req[r].pc = "done" => req[r].conn # "open"

\* C7: a createPatient whose body lacks name or age is rejected by the
\* database: it ends in an error response, and no record is added.
C7_MissingFieldRejected ==
    svc = "patient" =>
      /\ \A r \in Slots :
            /\ IsCreate(req[r]) /\ req[r].pc = "done"
            /\ (req[r].body.name = None \/ req[r].body.age = None)
            => req[r].status = 500
      /\ \A i \in DOMAIN rows["patients"] :
            rows["patients"][i].name # None /\ rows["patients"][i].age # None

\* The step in which a create's INSERT is executed, the database reachable.
Inserts(r) == req[r].pc = "exec" /\ IsCreate(req[r]) /\ req'[r].pc # "exec" /\ dbUp

\* C8: createAppointment succeeds and stores the appointment for every
\* patient_id, whether or not a patient with that id exists, and it neither
\* reads nor changes the patients table: with a date and a time the columns
\* take, the INSERT is accepted whatever the patients table holds, the commit
\* stores the row under the given patient_id, and no step of the appointment
\* service changes the patients table.
C8_NoReferentialCheck ==
    [][svc = "appointment" =>
         /\ rows'["patients"] = rows["patients"]
         /\ identity'["patients"] = identity["patients"]
         /\ \A r \in Slots :
               /\ Inserts(r) /\ ParseDate(req[r].body.date[1]) # None
                             /\ ParseTime(req[r].body.time[1]) # None
                  => req'[r].pc = "commit"
               /\ Commits(r) =>
                     \E row \in Range(rows'["appointments"]) :
                        /\ rows'["appointments"] = Append(rows["appointments"], row)
                        /\ row.patient_id = req[r].body.patient_id
    ]_vars

\* The appointments table holds an appointment of patient 1, who exists, and
\* one of patient 7, who does not; the create for patient 7 has answered 200.
C8_Witness ==
    /\ svc = "appointment"
    /\ Ids(rows["patients"]) = {1}
    /\ \E i, j \in DOMAIN rows["appointments"] :
          /\ rows["appointments"][i].patient_id = Some(1)
          /\ rows["appointments"][j].patient_id = Some(7)
    /\ \E r \in Slots : /\ IsCreate(req[r]) /\ Answered(req[r], 200)
                        /\ req[r].resp[1].patient_id = Some(7)

\* A step of replica p's module-level code.
Starts(p) == pstate[p] \in {"stopped", "absent", "created"} /\ pstate'[p] # pstate[p]

\* C9: the startup schema guard is idempotent: starts in sequence against the
\* same database leave one table of the service; the table is created only by
\* a start that finds it absent; a start that finds it goes on to serve, with
\* the table and every row stored before left as they were; and no start
\* fails while the database is reachable.
C9_GuardIdempotent ==
    [][\A p \in Replicas : Starts(p) =>
         /\ dbUp => pstate'[p] # "crashed"
         /\ pstate'[p] = "running" => Table(svc) \in sysobjects'
         /\ Table(svc) \in sysobjects =>
               /\ dbUp => pstate'[p] = "running"
               /\ sysobjects' = sysobjects
               /\ rows' = rows
               /\ identity' = identity
         /\ sysobjects' # sysobjects =>
               /\ Table(svc) \notin sysobjects
               /\ sysobjects' = sysobjects \cup {Table(svc)}
    ]_vars

\* Both replicas have started, one after the other, and serve; the table
\* holds rows.
C9_Witness ==
    /\ \A p \in Replicas : pstate[p] = "running"
    /\ rows[Table(svc)] # <<>>
    /\ Table(svc) \in sysobjects

\* The records a list returns when it reads the table tbl.
Listed(tbl) == {SelectedItem(svc, tbl[i]) : i \in DOMAIN tbl}

\* C10: records are only ever added: every record that a list has returned
\* is returned, with the same id and field values, by every later list; no
\* operation updates or deletes a record.  (A step that changes the table
\* keeps its rows; a list returns the table's records; and the records of an
\* answer that is held stay among those a list would return.)
C10_RecordsOnlyAdded ==
    [][/\ rows' # rows => Range(rows[Table(svc)]) \subseteq Range(rows'[Table(svc)])
       /\ \A r \in Slots :
             /\ IsList(req'[r]) /\ Answered(req'[r], 200)
             /\ (req'[r] # req[r] \/ rows' # rows)
             => Range(req'[r].resp) \subseteq Listed(rows'[Table(svc)])
    ]_vars

\* A list has returned a record, and since then a create has added another.
C10_Witness ==
    /\ \E l \in Slots :
          /\ IsList(req[l]) /\ Answered(req[l], 200)
          /\ req[l].resp # <<>>
          /\ Len(req[l].resp) < Len(rows[Table(svc)])
    /\ \E c \in Slots : IsCreate(req[c]) /\ Answered(req[c], 200)

\* The step in which a list's SELECT is executed, the database reachable.
Selects(r) == req[r].pc = "exec" /\ IsList(req[r]) /\ req'[r].pc # "exec" /\ dbUp

\* C11: listPatients on an empty patients table returns success with an empty
\* sequence, not an error: a SELECT that the database executes while the
\* table has no rows is answered 200 with [], and the connection is released.
C11_EmptyListSucceeds ==
    [][svc = "patient" =>
         \A r \in Slots : Selects(r) /\ rows["patients"] = <<>> =>
            /\ Answered(req'[r], 200)
            /\ req'[r].resp = <<>>
    ]_vars

\* A listPatients has answered 200 with no records; the table exists and is
\* empty.
C11_Witness ==
    /\ svc = "patient"
    /\ "patients" \in sysobjects
    /\ rows["patients"] = <<>>
    /\ \E r \in Slots : IsList(req[r]) /\ Answered(req[r], 200) /\ req[r].resp = <<>>

\* The step in which a list or create handler calls get_db_connection.
Connects(r) ==
    /\ req[r].pc = "sent"
    /\ IsList(req[r]) \/ IsCreate(req[r])
    /\ req'[r].pc # "sent"

\* C12: when the database is unreachable at the moment a list or create
\* handler tries to connect, the failure is not recovered locally: the request
\* ends with a generic server error response, no SQL statement is executed
\* (the handler holds no connection and has drawn no identity value), and the
\* tables are unchanged.
C12_ConnectFailurePropagates ==
    [][\A r \in Slots : Connects(r) /\ ~dbUp =>
          /\ Answered(req'[r], 500)
          /\ req'[r].conn = "none"
          /\ req'[r].ident = None
          /\ rows' = rows
          /\ identity' = identity
          /\ sysobjects' = sysobjects
    ]_vars

\* A create and a list have both ended 500 without a connection, the database
\* unreachable.
C12_Witness ==
    /\ ~dbUp
    /\ \E c, l \in Slots :
          /\ IsCreate(req[c]) /\ Answered(req[c], 500) /\ req[c].conn = "none"
          /\ IsList(req[l]) /\ Answered(req[l], 500) /\ req[l].conn = "none"

\* C13: the startup existence check and the table creation are not
\* synchronized across replicas: a replica's check is not held back by another
\* replica that has seen the table absent, and a replica that saw the table
\* absent attempts its CREATE TABLE even when the table has been made
\* meanwhile, and then its startup fails.
C13_UnsynchronizedStart ==
    [][\A p \in Replicas :
          /\ pstate[p] = "stopped" /\ pstate'[p] # "stopped" /\ dbUp
             /\ NotExists(Table(svc))
             => pstate'[p] = "absent"
          /\ pstate[p] = "absent" /\ pstate'[p] # "absent"
             /\ Table(svc) \in sysobjects
             => pstate'[p] = "crashed"
    ]_vars

\* Both replicas saw the table absent; one has created it and serves, the
\* other is about to attempt its CREATE TABLE, the database reachable.
C13_Witness ==
    /\ dbUp
    /\ Table(svc) \in sysobjects
    /\ \E p, q \in Replicas :
          /\ pstate[p] = "absent"
          /\ pstate[q] = "running"

\* C14: whenever createPatient or createAppointment ends with an error
\* response, a failure at any step of the handler (connect, insert, commit,
\* reading back the generated identity) leaves no new record behind: the table
\* holds no record of the failed request.
C14_FailedCreateStoresNothing ==
    [][\A r \in Slots :
          /\ IsCreate(req[r]) /\ req[r].pc \in {"sent", "exec", "commit", "ident"}
          /\ Answered(req'[r], 500)
          => (req[r].ident # None => req[r].ident[1] \notin Ids(rows'[Table(svc)]))
    ]_vars

====
